---- MODULE Spec2Model ----
(***************************************************************************)
(* RSVP admission control of the event-management backend.                 *)
(*                                                                         *)
(* The model follows backend/controllers/rsvpController (createRsvp,       *)
(* cancelRsvp, getMyRsvps, getRsvpStatus), backend/controllers/            *)
(* eventController (createEvent, getEvents, getEvent, updateEvent,         *)
(* deleteEvent, getEventAttendees), backend/controllers/authController     *)
(* (signup), the Event, RSVP and User schemas,                             *)
(* and the way the handlers use MongoDB: writes made without a session     *)
(* are applied at once and wait while a transaction holds the document;    *)
(* reads made without a session see the                                    *)
(* committed store; operations made with { session } inside                *)
(* startTransaction/commitTransaction are buffered until commit, read the  *)
(* transaction's snapshot, and fail with a write conflict when the         *)
(* document they write is held by another open transaction or was          *)
(* committed by another writer after the snapshot was taken.  Every await  *)
(* of a handler is one step, so requests interleave between awaits.        *)
(***************************************************************************)
EXTENDS Integers, FiniteSets, Sequences, TLC

\* ------------------------------------------------------------- bounds
NUsers == 2
NReq == 2
MaxCapacity == 2
MaxNow == 1
HistLen == 3

Users == 1..NUsers
Slots == 1..NReq
EventIds == {"e1"}
\* event ids a request may carry in req.params.eventId
TargetIds == EventIds
Ops == {"join", "leave"}

\* ------------------------------------------------------------- state
VARIABLES
    events,   \* Event collection: id -> [capacity, attendeeCount, date, creator]
    rsvps,    \* RSVP collection: set of [id, event, user, status]
    reqs,     \* the requests in flight, one per slot
    now,      \* the server clock (new Date())
    base,     \* history: the store as it was initially
    hist,     \* history: the last completed requests of a sequential run
    accounts  \* User collection: set of [id, email]

vars == <<events, rsvps, reqs, now, base, hist, accounts>>

Db == [events |-> events, rsvps |-> rsvps]

\* null, where a document id is expected
NoDoc == <<>>

IdleReq ==
    [op |-> "none", user |-> 0, event |-> "", pc |-> "idle", doc |-> NoDoc,
     txn |-> "none", evWrite |-> <<>>, recWrite |-> <<>>, snap |-> <<>>,
     staleEvents |-> {}, staleRsvps |-> {}, err |-> "", resp |-> "",
     pre |-> <<>>, arg |-> 0, session |-> "none", out |-> {},
     email |-> ""]

\* ------------------------------------------------- schema and queries

\* mongoose.Types.ObjectId.isValid(eventId)
IsValidId(e) == e # "bad"

\* RSVP.findOne({event, user, status}) : the matching documents
FindRsvp(recs, e, u, st) ==
    {x \in recs : x.event = e /\ x.user = u /\ x.status = st}

\* the _id of the document a findOne returns, <<>> for null
DocId(found) == IF found = {} THEN <<>> ELSE (CHOOSE x \in found : TRUE).id

\* createRsvp: existingRsvp lookup (status 'confirmed')
JoinFindExisting(recs, e, u) == FindRsvp(recs, e, u, "confirmed")

\* createRsvp: cancelledRsvp lookup (status 'cancelled')
JoinFindCancelled(recs, e, u) == FindRsvp(recs, e, u, "cancelled")

\* variant: a lookup that ignores the status field
FindAnyStatus(recs, e, u) == {x \in recs : x.event = e /\ x.user = u}

\* variant: a lookup that ignores the user field
FindAnyUser(recs, e, u) == {x \in recs : x.event = e /\ x.status = "confirmed"}

\* cancelRsvp: rsvp lookup (status 'confirmed')
LeaveFindRsvp(recs, e, u) == FindRsvp(recs, e, u, "confirmed")

\* getRsvpStatus: rsvp lookup (status 'confirmed')
StatusFindRsvp(recs, e, u) == FindRsvp(recs, e, u, "confirmed")

\* variant: the collection without its unique index
NoUniqueIndex(recs, e, u) == FALSE

\* rsvpSchema.index({event: 1, user: 1}, {unique: true}): an insert of the
\* pair (e, u) is a duplicate key
DuplicateKey(recs, e, u) == \E x \in recs : x.event = e /\ x.user = u

\* variant: $lte in place of $lt
AdmitUpToCapacity(ev) == ev.attendeeCount <= ev.capacity

\* createRsvp: $expr: { $lt: ['$attendeeCount', '$capacity'] }
AdmitFilter(ev) == ev.attendeeCount < ev.capacity

\* variant: $inc by 2
IncByTwo(c) == c + 2

\* createRsvp: $inc: { attendeeCount: 1 }
AdmitInc(c) == c + 1

\* cancelRsvp: attendeeCount: { $gt: 0 }
ReleaseFilter(ev) == ev.attendeeCount > 0

\* variant: the decrement left out
DecByZero(c) == c

\* cancelRsvp: $inc: { attendeeCount: -1 }
ReleaseInc(c) == c - 1

\* the document Event.create stores: attendeeCount 0 whatever the body says
EventDoc(cap, d, u) ==
    [capacity |-> cap, attendeeCount |-> 0, date |-> d, creator |-> u]

\* variant: <= in place of <
IsPastOrNow(ev) == ev.date <= now

\* new Date(event.date) < new Date()
IsPast(ev) == ev.date < now

\* a fresh ObjectId for a document of the pair (e, u): one that no stored
\* document, no pending insert, no document a handler has loaded and no
\* snapshot carries.  Ids are opaque; the model names them by the pair and a
\* number no such document of the pair has.
PairIds(e, u) ==
    {x.id : x \in {y \in rsvps : y.event = e /\ y.user = u}}
        \cup {reqs[s].recWrite[1].id :
                s \in {t \in Slots : /\ reqs[t].recWrite # <<>>
                                     /\ reqs[t].recWrite[1].event = e
                                     /\ reqs[t].recWrite[1].user = u}}
        \cup {reqs[s].doc : s \in {t \in Slots : reqs[t].doc # NoDoc}}
        \cup UNION {{x.id : x \in reqs[s].snap[1].rsvps} :
                        s \in {t \in Slots : reqs[t].snap # <<>>}}

FreshId(e, u) ==
    <<e, u, CHOOSE k \in 0..Cardinality(PairIds(e, u)) : <<e, u, k>> \notin PairIds(e, u)>>

\* ------------------------------------------------ transactions (session)

\* another open transaction holds an uncommitted write of the event document
EventLockedByOther(r, e) ==
    \E s \in Slots \ {r} :
        /\ reqs[s].txn = "active"
        /\ reqs[s].evWrite # <<>>
        /\ reqs[s].event = e

\* another open transaction holds an uncommitted write of the RSVP document
RsvpLockedByOther(r, id) ==
    \E s \in Slots \ {r} :
        /\ reqs[s].txn = "active"
        /\ reqs[s].recWrite # <<>>
        /\ reqs[s].recWrite[1].id = id

\* another open transaction holds an uncommitted insert of the pair's index key
PairLockedByOther(r, e, u) ==
    \E s \in Slots \ {r} :
        /\ reqs[s].txn = "active"
        /\ reqs[s].recWrite # <<>>
        /\ reqs[s].recWrite[1].event = e
        /\ reqs[s].recWrite[1].user = u

\* the store a transaction's operations read: its snapshot, taken by its
\* first operation
Snapshot(r) == IF reqs[r].snap = <<>> THEN Db ELSE reqs[r].snap[1]

\* the committed store after a transaction's buffered writes are applied
ApplyEvents(q) ==
    IF q.evWrite # <<>> /\ q.event \in DOMAIN events
    THEN [events EXCEPT ![q.event].attendeeCount = q.evWrite[1]]
    ELSE events
\* variant: a commit that removes a deactivated record instead of keeping it
ApplyRsvpsDropCancelled(q) ==
    IF q.recWrite # <<>>
    THEN {x \in rsvps : x.id # q.recWrite[1].id}
            \cup (IF q.recWrite[1].status = "cancelled" THEN {} ELSE {q.recWrite[1]})
    ELSE rsvps

ApplyRsvps(q) ==
    IF q.recWrite # <<>>
    THEN {x \in rsvps : x.id # q.recWrite[1].id} \cup {q.recWrite[1]}
    ELSE rsvps

\* the other open transactions see, from the commit on, the documents this
\* one wrote as changed since their snapshot
MarkStale(q, other) ==
    IF other.txn = "active" /\ other.snap # <<>>
    THEN [other EXCEPT
            !.staleEvents = @ \cup (IF q.evWrite # <<>> THEN {q.event} ELSE {}),
            !.staleRsvps = @ \cup (IF q.recWrite # <<>> THEN {q.recWrite[1].id} ELSE {})]
    ELSE other

\* a write made outside any transaction is seen by the open transactions as a
\* change of the document since their snapshot
TouchEvent(other, e) ==
    IF other.txn = "active" /\ other.snap # <<>>
    THEN [other EXCEPT !.staleEvents = @ \cup {e}]
    ELSE other

TouchRsvps(other, ids) ==
    IF other.txn = "active" /\ other.snap # <<>>
    THEN [other EXCEPT !.staleRsvps = @ \cup ids]
    ELSE other

\* a handler that has sent its response: res.status(..).json(..), then
\* finally { session.endSession() }
Finished(q, response, txnState) ==
    [q EXCEPT !.pc = "done", !.resp = response, !.txn = txnState,
              !.evWrite = <<>>, !.recWrite = <<>>, !.snap = <<>>,
              !.staleEvents = {}, !.staleRsvps = {}, !.doc = <<>>, !.err = "",
              !.session = IF @ = "open" THEN "ended" ELSE @]

\* an operation of a transaction failed on the server, which aborts the
\* transaction there: its writes are dropped at once
ServerAborted(q, pcAbort, error) ==
    [q EXCEPT !.pc = pcAbort, !.err = error, !.evWrite = <<>>, !.recWrite = <<>>]

Respond(r, response, txnState) ==
    /\ reqs' = [reqs EXCEPT ![r] = Finished(reqs[r], response, txnState)]
    /\ UNCHANGED <<events, rsvps, now, base, hist, accounts>>

Goto(r, q) ==
    /\ reqs' = [reqs EXCEPT ![r] = q]
    /\ UNCHANGED <<events, rsvps, now, base, hist, accounts>>

\* ------------------------------------------------------- request entry

\* a request arrives: const session = await mongoose.startSession()
StartReq(r, op, u, e, ghost) ==
    /\ reqs[r].pc = "idle"
    /\ reqs' = [reqs EXCEPT ![r] =
            [IdleReq EXCEPT !.op = op, !.user = u, !.event = e, !.pre = ghost,
                            !.session = IF op \in Ops THEN "open" ELSE "none",
                            !.pc = CASE op = "join" -> "j_findEvent"
                                     [] op = "leave" -> "l_findRsvp"
                                     [] OTHER -> "s_find"]]
    /\ UNCHANGED <<events, rsvps, now, base, hist, accounts>>

\* ------------------------------------------------------------ createRsvp

\* ObjectId.isValid, Event.findById, and the date check
JoinFindEvent(r) ==
    LET q == reqs[r] IN
    /\ q.pc = "j_findEvent"
    /\ IF ~IsValidId(q.event) THEN Respond(r, "InvalidId", "none")
       ELSE IF q.event \notin DOMAIN events THEN Respond(r, "EventNotFound", "none")
       ELSE IF IsPast(events[q.event]) THEN Respond(r, "EventInPast", "none")
       ELSE Goto(r, [q EXCEPT !.pc = "j_findExisting"])

\* existingRsvp = await RSVP.findOne({..., status: 'confirmed'})
JoinFindExistingStep(r) ==
    LET q == reqs[r] IN
    /\ q.pc = "j_findExisting"
    /\ IF JoinFindExisting(rsvps, q.event, q.user) # {}
       THEN Respond(r, "AlreadyRsvped", "none")
       ELSE Goto(r, [q EXCEPT !.pc = "j_findCancelled"])

\* cancelledRsvp = await RSVP.findOne({..., status: 'cancelled'});
\* session.startTransaction()
JoinFindCancelledStep(r) ==
    LET q == reqs[r] IN
    /\ q.pc = "j_findCancelled"
    /\ Goto(r, [q EXCEPT !.pc = "j_admit", !.txn = "active",
                         !.doc = DocId(JoinFindCancelled(rsvps, q.event, q.user))])

\* variant: the increment made without { session }, written at once
JoinAdmitUnbuffered(r) ==
    LET q == reqs[r]
        qs == [q EXCEPT !.snap = <<Db>>]
    IN
    /\ q.pc = "j_admit"
    /\ IF q.event \notin DOMAIN events \/ ~AdmitFilter(events[q.event])
       THEN Goto(r, [qs EXCEPT !.pc = "j_abort", !.err = "full"])
       ELSE /\ ~EventLockedByOther(r, q.event)
            /\ events' = [events EXCEPT ![q.event].attendeeCount = AdmitInc(@)]
            /\ reqs' = [s \in Slots |->
                          IF s = r THEN [qs EXCEPT !.pc = "j_write"]
                          ELSE TouchEvent(reqs[s], q.event)]
            /\ UNCHANGED <<rsvps, now, base, hist, accounts>>

\* variant: the handler goes on to the RSVP record when no event matched
JoinAdmitContinues(r) ==
    LET q == reqs[r]
        qs == [q EXCEPT !.snap = <<Db>>]
    IN
    /\ q.pc = "j_admit"
    /\ IF q.event \notin DOMAIN events \/ ~AdmitFilter(events[q.event])
       THEN Goto(r, [qs EXCEPT !.pc = "j_write"])
       ELSE IF EventLockedByOther(r, q.event)
       THEN Goto(r, ServerAborted(qs, "j_abort", "conflict"))
       ELSE Goto(r, [qs EXCEPT !.pc = "j_write",
                        !.evWrite = <<AdmitInc(events[q.event].attendeeCount)>>])

\* updatedEvent = await Event.findOneAndUpdate({_id, $expr: $lt}, {$inc: 1},
\* {new: true, session}): the transaction's first operation
JoinAdmit(r) ==
    LET q == reqs[r]
        qs == [q EXCEPT !.snap = <<Db>>]
    IN
    /\ q.pc = "j_admit"
    /\ IF q.event \notin DOMAIN events \/ ~AdmitFilter(events[q.event])
       THEN Goto(r, [qs EXCEPT !.pc = "j_abort", !.err = "full"])
       ELSE IF EventLockedByOther(r, q.event)
       THEN Goto(r, ServerAborted(qs, "j_abort", "conflict"))
       ELSE Goto(r, [qs EXCEPT !.pc = "j_write",
                        !.evWrite = <<AdmitInc(events[q.event].attendeeCount)>>])

\* cancelledRsvp.save({session}) or RSVP.create([{...}], {session})
JoinWrite(r) ==
    LET q == reqs[r]
        sn == Snapshot(r)
        old == {x \in sn.rsvps : x.id = q.doc}
        newer == {x \in rsvps : x.id \notin {y.id : y \in sn.rsvps}}
    IN
    /\ q.pc = "j_write"
    /\ IF q.doc # <<>>
       THEN \* reactivate: updateOne({_id}, {$set: {status: 'confirmed'}})
            IF old = {}
            THEN Goto(r, [q EXCEPT !.pc = "j_abort", !.err = "fault"])
            ELSE IF RsvpLockedByOther(r, q.doc) \/ q.doc \in q.staleRsvps
            THEN Goto(r, ServerAborted(q, "j_abort", "conflict"))
            ELSE Goto(r, [q EXCEPT !.pc = "j_commit",
                    !.recWrite = <<[(CHOOSE x \in old : TRUE) EXCEPT !.status = "confirmed"]>>])
       ELSE \* insert, guarded by the unique index on (event, user)
            IF PairLockedByOther(r, q.event, q.user)
                 \/ DuplicateKey(newer, q.event, q.user)
            THEN Goto(r, ServerAborted(q, "j_abort", "conflict"))
            ELSE IF DuplicateKey(sn.rsvps, q.event, q.user)
            THEN Goto(r, ServerAborted(q, "j_abort", "dup"))
            ELSE Goto(r, [q EXCEPT !.pc = "j_commit",
                    !.recWrite = <<[id |-> FreshId(q.event, q.user), event |-> q.event,
                                    user |-> q.user, status |-> "confirmed"]>>])

\* await session.commitTransaction(); res.status(201)
JoinCommit(r) ==
    LET q == reqs[r] IN
    /\ q.pc = "j_commit"
    /\ events' = ApplyEvents(q)
    /\ rsvps' = ApplyRsvps(q)
    /\ reqs' = [s \in Slots |->
                  IF s = r THEN Finished(q, "Committed", "committed")
                  ELSE MarkStale(q, reqs[s])]
    /\ UNCHANGED <<now, base, hist, accounts>>

\* the response of createRsvp after abortTransaction
JoinAbortResponse(error) ==
    CASE error = "full" -> "EventFull"
      [] error = "dup" -> "AlreadyRsvped"
      [] OTHER -> "Error500"
\* variant: a response sent without abortTransaction
JoinAbortLeavesOpen(r) ==
    LET q == reqs[r] IN
    /\ q.pc = "j_abort"
    /\ Respond(r, JoinAbortResponse(q.err), q.txn)
\* variant: after a write conflict the handler answers nothing
JoinAbortSilent(r) ==
    LET q == reqs[r] IN
    /\ q.pc = "j_abort"
    /\ q.err # "conflict"
    /\ Respond(r, JoinAbortResponse(q.err), "aborted")

\* await session.abortTransaction(), on the full-capacity path and in the
\* inner catch
JoinAbort(r) ==
    LET q == reqs[r] IN
    /\ q.pc = "j_abort"
    /\ Respond(r, JoinAbortResponse(q.err), "aborted")

\* ------------------------------------------------------------ cancelRsvp

\* ObjectId.isValid; rsvp = await RSVP.findOne({..., status: 'confirmed'})
LeaveFindRsvpStep(r) ==
    LET q == reqs[r]
        found == LeaveFindRsvp(rsvps, q.event, q.user)
    IN
    /\ q.pc = "l_findRsvp"
    /\ IF ~IsValidId(q.event) THEN Respond(r, "InvalidId", "none")
       ELSE IF found = {} THEN Respond(r, "NotRsvped", "none")
       ELSE Goto(r, [q EXCEPT !.pc = "l_findEvent", !.doc = DocId(found)])

\* event = await Event.findById(eventId); session.startTransaction()
LeaveFindEvent(r) ==
    LET q == reqs[r] IN
    /\ q.pc = "l_findEvent"
    /\ IF q.event \notin DOMAIN events THEN Respond(r, "EventNotFound", "none")
       ELSE Goto(r, [q EXCEPT !.pc = "l_save", !.txn = "active"])

\* variant: rsvp.save() without { session }, written at once
LeaveSaveUnbuffered(r) ==
    LET q == reqs[r]
        qs == [q EXCEPT !.snap = <<Db>>]
        old == {x \in rsvps : x.id = q.doc}
    IN
    /\ q.pc = "l_save"
    /\ IF old = {}
       THEN Goto(r, [qs EXCEPT !.pc = "l_abort", !.err = "fault"])
       ELSE /\ ~RsvpLockedByOther(r, q.doc)
            /\ rsvps' = (rsvps \ old)
                          \cup {[(CHOOSE x \in old : TRUE) EXCEPT !.status = "cancelled"]}
            /\ reqs' = [s \in Slots |->
                          IF s = r THEN [qs EXCEPT !.pc = "l_release"]
                          ELSE TouchRsvps(reqs[s], {q.doc})]
            /\ UNCHANGED <<events, now, base, hist, accounts>>

\* rsvp.status = 'cancelled'; await rsvp.save({session}): the transaction's
\* first operation, updateOne({_id}, {$set: {status: 'cancelled'}})
LeaveSave(r) ==
    LET q == reqs[r]
        qs == [q EXCEPT !.snap = <<Db>>]
        old == {x \in rsvps : x.id = q.doc}
    IN
    /\ q.pc = "l_save"
    /\ IF old = {}
       THEN Goto(r, [qs EXCEPT !.pc = "l_abort", !.err = "fault"])
       ELSE IF RsvpLockedByOther(r, q.doc)
       THEN Goto(r, ServerAborted(qs, "l_abort", "conflict"))
       ELSE Goto(r, [qs EXCEPT !.pc = "l_release",
                !.recWrite = <<[(CHOOSE x \in old : TRUE) EXCEPT !.status = "cancelled"]>>])

\* variant: the decrement made without { session }, written at once
LeaveReleaseUnbuffered(r) ==
    LET q == reqs[r] IN
    /\ q.pc = "l_release"
    /\ IF q.event \notin DOMAIN events \/ ~ReleaseFilter(events[q.event])
       THEN Goto(r, [q EXCEPT !.pc = "l_abort", !.err = "floor"])
       ELSE /\ ~EventLockedByOther(r, q.event)
            /\ events' = [events EXCEPT ![q.event].attendeeCount = ReleaseInc(@)]
            /\ reqs' = [s \in Slots |->
                          IF s = r THEN [q EXCEPT !.pc = "l_commit"]
                          ELSE TouchEvent(reqs[s], q.event)]
            /\ UNCHANGED <<rsvps, now, base, hist, accounts>>
\* variant: the !updatedEvent check left out, the handler commits
LeaveReleaseUnchecked(r) ==
    LET q == reqs[r]
        sn == Snapshot(r)
    IN
    /\ q.pc = "l_release"
    /\ IF q.event \notin DOMAIN sn.events \/ ~ReleaseFilter(sn.events[q.event])
       THEN Goto(r, [q EXCEPT !.pc = "l_commit"])
       ELSE IF EventLockedByOther(r, q.event) \/ q.event \in q.staleEvents
       THEN Goto(r, ServerAborted(q, "l_abort", "conflict"))
       ELSE Goto(r, [q EXCEPT !.pc = "l_commit",
                !.evWrite = <<ReleaseInc(sn.events[q.event].attendeeCount)>>])

\* updatedEvent = await Event.findOneAndUpdate({_id, attendeeCount: {$gt: 0}},
\* {$inc: {attendeeCount: -1}}, {new: true, session})
LeaveRelease(r) ==
    LET q == reqs[r]
        sn == Snapshot(r)
    IN
    /\ q.pc = "l_release"
    /\ IF q.event \notin DOMAIN sn.events \/ ~ReleaseFilter(sn.events[q.event])
       THEN Goto(r, [q EXCEPT !.pc = "l_abort", !.err = "floor"])
       ELSE IF EventLockedByOther(r, q.event) \/ q.event \in q.staleEvents
       THEN Goto(r, ServerAborted(q, "l_abort", "conflict"))
       ELSE Goto(r, [q EXCEPT !.pc = "l_commit",
                !.evWrite = <<ReleaseInc(sn.events[q.event].attendeeCount)>>])

\* await session.commitTransaction(); res.status(200)
LeaveCommit(r) ==
    LET q == reqs[r] IN
    /\ q.pc = "l_commit"
    /\ events' = ApplyEvents(q)
    /\ rsvps' = ApplyRsvps(q)
    /\ reqs' = [s \in Slots |->
                  IF s = r THEN Finished(q, "Committed", "committed")
                  ELSE MarkStale(q, reqs[s])]
    /\ UNCHANGED <<now, base, hist, accounts>>

\* the response of cancelRsvp after abortTransaction
LeaveAbortResponse(error) ==
    IF error = "floor" THEN "InconsistentState" ELSE "Error500"

\* await session.abortTransaction(), on the !updatedEvent path and in the
\* inner catch
LeaveAbort(r) ==
    LET q == reqs[r] IN
    /\ q.pc = "l_abort"
    /\ Respond(r, LeaveAbortResponse(q.err), "aborted")

\* --------------------------------------------------------- getRsvpStatus

\* hasRsvped: !!rsvp
StatusFind(r) ==
    LET q == reqs[r] IN
    /\ q.pc = "s_find"
    /\ IF ~IsValidId(q.event) THEN Respond(r, "InvalidId", "none")
       ELSE IF StatusFindRsvp(rsvps, q.event, q.user) # {}
       THEN Respond(r, "HasRsvped", "none")
       ELSE Respond(r, "HasNotRsvped", "none")

\* ----------------------------------------------------- eventController

\* the ObjectIds of events, in the order Event.create gives them out; a
\* request may name any of them
EventIdSeq == <<"e1", "e2">>
AllEventIds == {EventIdSeq[i] : i \in 1..Len(EventIdSeq)}

\* an ObjectId is unused when no event, no RSVP record and no request in
\* flight carries it
UnusedEventId(id) ==
    /\ id \notin DOMAIN events
    /\ \A x \in rsvps : x.event # id
    /\ \A s \in Slots : reqs[s].event # id

\* an updateEvent or deleteEvent request arrives (PUT, DELETE /api/events/:id)
StartOwnerReq(r, op, u, e, cap) ==
    /\ reqs[r].pc = "idle"
    /\ reqs' = [reqs EXCEPT ![r] =
            [IdleReq EXCEPT !.op = op, !.user = u, !.event = e, !.arg = cap,
                            !.pc = IF op = "update" THEN "u_find" ELSE "d_find"]]
    /\ UNCHANGED <<events, rsvps, now, base, hist, accounts>>

\* variant: Event.create({ ...req.body, creator })
CreateEventFromBody(u, body) ==
    /\ body.date >= now
    /\ \E i \in 1..Len(EventIdSeq) :
          LET id == EventIdSeq[i] IN
          /\ UnusedEventId(id)
          /\ \A j \in 1..(i - 1) : ~UnusedEventId(EventIdSeq[j])
          /\ events' = [x \in DOMAIN events \cup {id} |->
                          IF x = id
                          THEN [EventDoc(body.capacity, body.date, u)
                                  EXCEPT !.attendeeCount = body.attendeeCount]
                          ELSE events[x]]
    /\ UNCHANGED <<rsvps, reqs, now, base, hist, accounts>>

\* createEvent: the date check, then Event.create({..., attendeeCount: 0}).
\* body is req.body; the new document gets an ObjectId nothing refers to
CreateEvent(u, body) ==
    /\ body.date >= now
    /\ \E i \in 1..Len(EventIdSeq) :
          LET id == EventIdSeq[i] IN
          /\ UnusedEventId(id)
          /\ \A j \in 1..(i - 1) : ~UnusedEventId(EventIdSeq[j])
          /\ events' = [x \in DOMAIN events \cup {id} |->
                          IF x = id THEN EventDoc(body.capacity, body.date, u)
                          ELSE events[x]]
    /\ UNCHANGED <<rsvps, reqs, now, base, hist, accounts>>

\* updateEvent: event = await Event.findById(id), the creator check and the
\* capacity check against the attendeeCount just read
UpdateFind(r) ==
    LET q == reqs[r] IN
    /\ q.pc = "u_find"
    /\ IF ~IsValidId(q.event) THEN Respond(r, "InvalidId", "none")
       ELSE IF q.event \notin DOMAIN events THEN Respond(r, "EventNotFound", "none")
       ELSE IF events[q.event].creator # q.user THEN Respond(r, "NotOwner", "none")
       ELSE IF q.arg # 0 /\ q.arg < events[q.event].attendeeCount
       THEN Respond(r, "CapacityBelowCount", "none")
       ELSE Goto(r, [q EXCEPT !.pc = "u_write"])

\* variant: the capacity filter { attendeeCount: { $lte: capacity } } added to
\* the update
UpdateGuarded(ev, cap) ==
    IF cap # 0 /\ cap >= ev.attendeeCount THEN [ev EXCEPT !.capacity = cap] ELSE ev

\* updateData: { $set: { capacity } } when the body carries a capacity
UpdateData(ev, cap) ==
    IF cap # 0 THEN [ev EXCEPT !.capacity = cap] ELSE ev

\* event = await Event.findByIdAndUpdate(id, { $set: updateData }, ...): a
\* write outside any transaction, which waits while a transaction holds the
\* document; 200 also when the event is gone
UpdateWrite(r) ==
    LET q == reqs[r] IN
    /\ q.pc = "u_write"
    /\ ~EventLockedByOther(r, q.event)
    /\ IF q.event \in DOMAIN events /\ q.arg # 0
       THEN /\ events' = [events EXCEPT ![q.event] = UpdateData(@, q.arg)]
            /\ reqs' = [s \in Slots |->
                          IF s = r THEN Finished(q, "Updated", "none")
                          ELSE TouchEvent(reqs[s], q.event)]
       ELSE /\ events' = events
            /\ reqs' = [reqs EXCEPT ![r] = Finished(q, "Updated", "none")]
    /\ UNCHANGED <<rsvps, now, base, hist, accounts>>
\* variant: deleteEvent without the creator check
DeleteFindAnyUser(r) ==
    LET q == reqs[r] IN
    /\ q.pc = "d_find"
    /\ IF ~IsValidId(q.event) THEN Respond(r, "InvalidId", "none")
       ELSE IF q.event \notin DOMAIN events THEN Respond(r, "EventNotFound", "none")
       ELSE Goto(r, [q EXCEPT !.pc = "d_rsvps"])

\* deleteEvent: event = await Event.findById(id) and the creator check
DeleteFind(r) ==
    LET q == reqs[r] IN
    /\ q.pc = "d_find"
    /\ IF ~IsValidId(q.event) THEN Respond(r, "InvalidId", "none")
       ELSE IF q.event \notin DOMAIN events THEN Respond(r, "EventNotFound", "none")
       ELSE IF events[q.event].creator # q.user THEN Respond(r, "NotOwner", "none")
       ELSE Goto(r, [q EXCEPT !.pc = "d_rsvps"])

\* await RSVP.deleteMany({ event: event._id }): waits while a transaction
\* holds one of the documents; inserts not yet committed are not seen
DeleteRsvps(r) ==
    LET q == reqs[r]
        gone == {x \in rsvps : x.event = q.event}
    IN
    /\ q.pc = "d_rsvps"
    /\ \A x \in gone : ~RsvpLockedByOther(r, x.id)
    /\ rsvps' = rsvps \ gone
    /\ reqs' = [s \in Slots |->
                  IF s = r THEN [q EXCEPT !.pc = "d_event"]
                  ELSE TouchRsvps(reqs[s], {x.id : x \in gone})]
    /\ UNCHANGED <<events, now, base, hist, accounts>>

\* await Event.findByIdAndDelete(id); res.status(200)
DeleteEventDoc(r) ==
    LET q == reqs[r] IN
    /\ q.pc = "d_event"
    /\ ~EventLockedByOther(r, q.event)
    /\ events' = [x \in DOMAIN events \ {q.event} |-> events[x]]
    /\ reqs' = [s \in Slots |->
                  IF s = r THEN Finished(q, "Deleted", "none")
                  ELSE TouchEvent(reqs[s], q.event)]
    /\ UNCHANGED <<rsvps, now, base, hist, accounts>>

\* --------------------------------------------------------- read handlers

ReadOps == {"status", "event", "events", "mine", "roster"}

\* the first step of each read handler
ReadEntry(op) ==
    CASE op = "status" -> "s_find"
      [] op = "event" -> "g_find"
      [] op = "events" -> "g_list"
      [] op = "mine" -> "m_find"
      [] OTHER -> "r_find"

\* a read request arrives; user 0 is a request without req.user (the routes
\* of getEvent and getEvents authenticate optionally)
StartReadReq(r, op, u, e) ==
    /\ reqs[r].pc = "idle"
    /\ reqs' = [reqs EXCEPT ![r] =
            [IdleReq EXCEPT !.op = op, !.user = u, !.event = e, !.pc = ReadEntry(op)]]
    /\ UNCHANGED <<events, rsvps, now, base, hist, accounts>>

\* getEvent: event = await Event.findById(req.params.id); a CastError is
\* answered 400
GetEventFind(r) ==
    LET q == reqs[r] IN
    /\ q.pc = "g_find"
    /\ IF ~IsValidId(q.event) THEN Respond(r, "InvalidId", "none")
       ELSE IF q.event \notin DOMAIN events THEN Respond(r, "EventNotFound", "none")
       ELSE IF q.user = 0
       THEN Goto(r, [Finished(q, "Event", "none") EXCEPT !.out = {<<q.event, FALSE>>}])
       ELSE Goto(r, [q EXCEPT !.pc = "g_rsvp"])

\* variant: the getEvent lookup without the status filter
GetEventAnyStatus(recs, e, u) == {x \in recs : x.event = e /\ x.user = u}

\* getEvent: rsvp lookup (status 'confirmed')
GetEventFindRsvp(recs, e, u) == FindRsvp(recs, e, u, "confirmed")

\* getEvent: hasRsvped = !!rsvp; res.status(200)
GetEventRsvp(r) ==
    LET q == reqs[r] IN
    /\ q.pc = "g_rsvp"
    /\ Goto(r, [Finished(q, "Event", "none") EXCEPT
                  !.out = {<<q.event, GetEventFindRsvp(rsvps, q.event, q.user) # {}>>}])

\* getEvents: query = { date: { $gte: new Date() } }
Upcoming(evs) == {e \in DOMAIN evs : evs[e].date >= now}

\* getEvents: events = await Event.find(query) (first page, default limit)
GetEventsList(r) ==
    LET q == reqs[r] IN
    /\ q.pc = "g_list"
    /\ Goto(r, [q EXCEPT !.pc = "g_count",
                         !.out = {<<e, FALSE>> : e \in Upcoming(events)}])

\* getEvents: total = await Event.countDocuments(query); without req.user the
\* events are returned as found
GetEventsCount(r) ==
    LET q == reqs[r]
        qc == [q EXCEPT !.arg = Cardinality(Upcoming(events))]
    IN
    /\ q.pc = "g_count"
    /\ IF q.user = 0
       THEN Goto(r, Finished(qc, "Events", "none"))
       ELSE Goto(r, [qc EXCEPT !.pc = "g_flags"])

\* getEvents: RSVP.find({event: {$in: eventIds}, user, status: 'confirmed'})
GetEventsFindRsvps(recs, ids, u) ==
    {x \in recs : x.event \in ids /\ x.user = u /\ x.status = "confirmed"}

\* getEvents: hasRsvped: rsvpMap.has(event._id); res.status(200)
GetEventsFlags(r) ==
    LET q == reqs[r]
        ids == {p[1] : p \in q.out}
        found == GetEventsFindRsvps(rsvps, ids, q.user)
    IN
    /\ q.pc = "g_flags"
    /\ Goto(r, [Finished(q, "Events", "none") EXCEPT
                  !.out = {<<e, e \in {x.event : x \in found}>> : e \in ids}])

\* getEventAttendees: event = await Event.findById(req.params.id) and the
\* creator check; a CastError is answered 500
RosterFind(r) ==
    LET q == reqs[r] IN
    /\ q.pc = "r_find"
    /\ IF ~IsValidId(q.event) THEN Respond(r, "Error500", "none")
       ELSE IF q.event \notin DOMAIN events THEN Respond(r, "EventNotFound", "none")
       ELSE IF events[q.event].creator # q.user THEN Respond(r, "NotOwner", "none")
       ELSE Goto(r, [q EXCEPT !.pc = "r_list"])

\* variant: the roster lookup without the status filter
RosterAnyStatus(recs, e) == {x \in recs : x.event = e}

\* getEventAttendees: RSVP.find({event: event._id, status: 'confirmed'})
RosterFindRsvps(recs, e) == {x \in recs : x.event = e /\ x.status = "confirmed"}

\* getEventAttendees: attendees: rsvps.map(r => r.user); res.status(200)
RosterList(r) ==
    LET q == reqs[r] IN
    /\ q.pc = "r_list"
    /\ Goto(r, [Finished(q, "Roster", "none") EXCEPT
                  !.out = {x.user : x \in RosterFindRsvps(rsvps, q.event)}])

\* getMyRsvps: RSVP.find({user: req.user._id, status: 'confirmed'})
MineFindRsvps(recs, u) == {x \in recs : x.user = u /\ x.status = "confirmed"}

\* getMyRsvps: the find
MineFind(r) ==
    LET q == reqs[r] IN
    /\ q.pc = "m_find"
    /\ Goto(r, [q EXCEPT !.pc = "m_populate", !.out = MineFindRsvps(rsvps, q.user)])

\* variant: the filter without the date test
MineKeepsExisting(x) == x.event \in DOMAIN events

\* getMyRsvps: rsvp.event && new Date(rsvp.event.date) >= new Date(), the
\* event being the one populate loaded (null when it is not stored)
MineKeeps(x) == x.event \in DOMAIN events /\ events[x.event].date >= now

\* getMyRsvps: populate('event'), the filter, res.status(200)
MinePopulate(r) ==
    LET q == reqs[r] IN
    /\ q.pc = "m_populate"
    /\ Goto(r, [Finished(q, "MyRsvps", "none") EXCEPT
                  !.out = {x \in q.out : MineKeeps(x)}])

\* ----------------------------------------------------- authController

\* the emails a signup body may carry; "" stands for a body the validation
\* rules reject
Emails == {"a@x.io", "A@X.io", "b@x.io", ""}

\* email.toLowerCase()
ToLowerCase(s) == IF s = "A@X.io" THEN "a@x.io" ELSE s

\* User.findOne({ email })
FindUser(users, em) == {x \in users : x.email = em}

\* userSchema.email unique: true: an insert of a stored email is a duplicate
\* key
DuplicateEmail(users, em) == \E x \in users : x.email = em

\* a signup request arrives
StartSignup(r) ==
    /\ reqs[r].pc = "idle"
    /\ \E em \in Emails :
          reqs' = [reqs EXCEPT ![r] =
                      [IdleReq EXCEPT !.op = "signup", !.email = em, !.pc = "a_find"]]
    /\ UNCHANGED <<events, rsvps, now, base, hist, accounts>>

\* signup: validationResult, then existingUser = await User.findOne(...)
SignupFind(r) ==
    LET q == reqs[r] IN
    /\ q.pc = "a_find"
    /\ IF q.email = "" THEN Respond(r, "ValidationFailed", "none")
       ELSE IF FindUser(accounts, ToLowerCase(q.email)) # {}
       THEN Respond(r, "EmailTaken", "none")
       ELSE Goto(r, [q EXCEPT !.pc = "a_create"])

\* user = await User.create({ name, email: email.toLowerCase(), password });
\* a thrown error is caught and answered 500
SignupCreate(r) ==
    LET q == reqs[r]
        em == ToLowerCase(q.email)
    IN
    /\ q.pc = "a_create"
    /\ IF DuplicateEmail(accounts, em)
       THEN /\ accounts' = accounts
            /\ reqs' = [reqs EXCEPT ![r] = Finished(q, "Error500", "none")]
       ELSE /\ accounts' = accounts \cup {[id |-> Cardinality(accounts) + 1, email |-> em]}
            /\ reqs' = [reqs EXCEPT ![r] = Finished(q, "Registered", "none")]
    /\ UNCHANGED <<events, rsvps, now, base, hist>>

\* ------------------------------------------------------------ environment

\* time passes
Tick ==
    /\ now < MaxNow
    /\ now' = now + 1
    /\ UNCHANGED <<events, rsvps, reqs, base, hist, accounts>>

\* a request arrives while others may be in flight
Start(r) ==
    \E op \in Ops, u \in Users, e \in TargetIds : StartReq(r, op, u, e, <<>>)

\* the slot of an answered request is free for the next request
Retire(r) ==
    /\ reqs[r].pc = "done"
    /\ reqs' = [reqs EXCEPT ![r] = IdleReq]
    /\ UNCHANGED <<events, rsvps, now, base, hist, accounts>>

\* one step of a handler
Step(r) ==
    \/ JoinFindEvent(r)
    \/ JoinFindExistingStep(r)
    \/ JoinFindCancelledStep(r)
    \/ JoinAdmit(r)
    \/ JoinWrite(r)
    \/ JoinCommit(r)
    \/ JoinAbort(r)
    \/ LeaveFindRsvpStep(r)
    \/ LeaveFindEvent(r)
    \/ LeaveSave(r)
    \/ LeaveRelease(r)
    \/ LeaveCommit(r)
    \/ LeaveAbort(r)

\* an event as createEvent stores it: attendeeCount 0, a date not in the past
NewEvent(cap) == EventDoc(cap, 0, 1)

Init ==
    /\ \E cap \in 1..MaxCapacity : events = [e \in EventIds |-> NewEvent(cap)]
    /\ rsvps = {}
    /\ reqs = [s \in Slots |-> IdleReq]
    /\ now = 0
    /\ base = [events |-> events, rsvps |-> rsvps]
    /\ hist = <<>>
    /\ accounts = {}

Next ==
    \/ \E r \in Slots : Start(r) \/ Step(r) \/ Retire(r)
    \/ Tick

Spec == Init /\ [][Next]_vars

\* --------------------------------------------------- a race of requests

\* a store no request is working on: every pair has at most one record and
\* attendeeCount counts the confirmed ones (what completed joins and leaves,
\* run one after the other on a new event, leave behind)
SettledRsvps(st) ==
    {[id |-> <<e, u, 0>>, event |-> e, user |-> u, status |-> st[<<e, u>>]] :
        <<e, u>> \in {p \in EventIds \X Users : st[p] # "none"}}

InitRace ==
    /\ \E cap \in 1..MaxCapacity,
          st \in [EventIds \X Users -> {"none", "confirmed", "cancelled"}] :
          /\ rsvps = SettledRsvps(st)
          /\ \A e \in EventIds :
                Cardinality({x \in rsvps : x.event = e /\ x.status = "confirmed"}) <= cap
          /\ events = [e \in EventIds |->
                [NewEvent(cap) EXCEPT !.attendeeCount =
                    Cardinality({x \in rsvps : x.event = e /\ x.status = "confirmed"})]]
    /\ reqs = [s \in Slots |-> IdleReq]
    /\ now = 0
    /\ base = [events |-> events, rsvps |-> rsvps]
    /\ hist = <<>>
    /\ accounts = {}

\* each slot carries one request, issued at any moment
NextRace ==
    \/ \E r \in Slots : Start(r) \/ Step(r)
    \/ Tick

SpecRace == InitRace /\ [][NextRace]_vars

\* ------------------------------------------- requests one after the other
\* ------------------------------------------- every handler keeps running

\* the race of requests, where a handler that can take a step takes it in
\* the end: the event loop resumes every handler whose awaited operation the
\* store has answered
SpecLive ==
    InitRace /\ [][NextRace]_vars /\ \A r \in Slots : WF_vars(Step(r))

\* a request arrives when no other is in flight
StartSeq(r) ==
    /\ \A s \in Slots : reqs[s].pc = "idle"
    /\ \E op \in Ops \cup {"status"}, u \in Users, e \in TargetIds :
          StartReq(r, op, u, e, <<Db>>)

\* what a completed request did: the store before and after, its response,
\* and the clock when it answered
Entry(q) ==
    [op |-> q.op, user |-> q.user, event |-> q.event, resp |-> q.resp,
     pre |-> q.pre[1], post |-> Db, at |-> now]

RetireSeq(r) ==
    /\ reqs[r].pc = "done"
    /\ reqs' = [reqs EXCEPT ![r] = IdleReq]
    /\ hist' = LET h == Append(hist, Entry(reqs[r]))
               IN IF Len(h) > HistLen THEN Tail(h) ELSE h
    /\ UNCHANGED <<events, rsvps, now, base, accounts>>

\* one step of a handler.  With one request at a time cancelRsvp never
\* reaches abortTransaction (NoLeaveAbortInSeq), so that step is not listed.
StepSeq(r) ==
    \/ JoinFindEvent(r)
    \/ JoinFindExistingStep(r)
    \/ JoinFindCancelledStep(r)
    \/ JoinAdmit(r)
    \/ JoinWrite(r)
    \/ JoinCommit(r)
    \/ JoinAbort(r)
    \/ LeaveFindRsvpStep(r)
    \/ LeaveFindEvent(r)
    \/ LeaveSave(r)
    \/ LeaveRelease(r)
    \/ LeaveCommit(r)
    \/ StatusFind(r)

NextSeq ==
    \/ \E r \in Slots : StartSeq(r) \/ StepSeq(r) \/ RetireSeq(r)
    \/ Tick

NoLeaveAbortInSeq == \A r \in Slots : reqs[r].pc # "l_abort"

SpecSeq == Init /\ [][NextSeq]_vars

\* ------------------------------- requests of callers and of event owners

\* a createRsvp or cancelRsvp request naming one of the ids
StartRsvp(r, ids) ==
    \E op \in Ops, u \in Users, e \in ids : StartReq(r, op, u, e, <<>>)

\* an updateEvent request, its body with a capacity (0: without)
StartUpdate(r, ids) ==
    \E u \in Users, e \in ids, cap \in 0..MaxCapacity :
        StartOwnerReq(r, "update", u, e, cap)

\* a deleteEvent request
StartDelete(r, ids) ==
    \E u \in Users, e \in ids : StartOwnerReq(r, "delete", u, e, 0)

\* a createEvent request: Event.create is its only write
Create ==
    \E u \in Users,
       body \in [capacity : 1..MaxCapacity, date : 0..MaxNow,
                 attendeeCount : 0..MaxCapacity] :
        CreateEvent(u, body)

\* one step of updateEvent
UpdateStep(r) ==
    \/ UpdateFind(r)
    \/ UpdateWrite(r)

\* one step of deleteEvent
DeleteStep(r) ==
    \/ DeleteFind(r)
    \/ DeleteRsvps(r)
    \/ DeleteEventDoc(r)

\* the requests on one event: each slot carries one request, of a caller
\* (who may name an id no event has) or of a user who may be its creator
NextOwner ==
    \/ \E r \in Slots :
          \/ StartRsvp(r, AllEventIds)
          \/ StartUpdate(r, EventIds)
          \/ StartDelete(r, EventIds)
          \/ Step(r)
          \/ UpdateStep(r)
          \/ DeleteStep(r)
    \/ Tick

SpecOwner == InitRace /\ [][NextOwner]_vars

\* the requests on several events: events are created and updated while
\* callers join and leave any of them
NextEvents ==
    \/ \E r \in Slots :
          \/ StartRsvp(r, AllEventIds)
          \/ StartUpdate(r, AllEventIds)
          \/ Step(r)
          \/ UpdateStep(r)
    \/ Create

SpecEvents == InitRace /\ [][NextEvents]_vars

\* ------------------------------------------------- interrupted requests

\* the handler in slot r is interrupted between two steps (the process
\* crashes, the connection is lost): it takes no further step and answers
\* nothing.  Its transaction stays open at the server until the session is
\* given up; a commitTransaction that was under way may have reached the
\* server
Interrupt(r) ==
    LET q == reqs[r] IN
    /\ q.pc \notin {"idle", "done", "lost"}
    /\ IF q.pc \in {"j_commit", "l_commit"}
       THEN \E reached \in BOOLEAN :
               IF reached
               THEN /\ events' = ApplyEvents(q)
                    /\ rsvps' = ApplyRsvps(q)
                    /\ reqs' = [s \in Slots |->
                                  IF s = r THEN Finished(q, "NoResponse", "committed")
                                  ELSE MarkStale(q, reqs[s])]
               ELSE /\ events' = events
                    /\ rsvps' = rsvps
                    /\ reqs' = [reqs EXCEPT ![r] = [q EXCEPT !.pc = "lost"]]
       ELSE /\ events' = events
            /\ rsvps' = rsvps
            /\ reqs' = [reqs EXCEPT ![r] = [q EXCEPT !.pc = "lost"]]
    /\ UNCHANGED <<now, base, hist, accounts>>

\* the server gives up the session of an interrupted handler and aborts its
\* open transaction
Expire(r) ==
    LET q == reqs[r] IN
    /\ q.pc = "lost"
    /\ Respond(r, "NoResponse", IF q.txn = "active" THEN "aborted" ELSE q.txn)

\* a request arrives when no other handler is running; transactions of
\* interrupted handlers may still be open
StartAlone(r) ==
    /\ \A s \in Slots : reqs[s].pc \in {"idle", "done", "lost"}
    /\ Start(r)

NextCrash ==
    \/ \E r \in Slots :
          StartAlone(r) \/ Step(r) \/ Interrupt(r) \/ Expire(r) \/ Retire(r)
    \/ Tick

SpecCrash == Init /\ [][NextCrash]_vars

\* -------------------------------------------- reads beside the writes

\* a read request: getEvents and getMyRsvps name no event
StartRead(r) ==
    \E op \in ReadOps, u \in Users \cup {0}, e \in EventIds :
        /\ u = 0 => op \in {"event", "events"}
        /\ StartReadReq(r, op, u, IF op \in {"events", "mine"} THEN "" ELSE e)

\* one step of a read handler
ReadStep(r) ==
    \/ StatusFind(r)
    \/ GetEventFind(r)
    \/ GetEventRsvp(r)
    \/ GetEventsList(r)
    \/ GetEventsCount(r)
    \/ GetEventsFlags(r)
    \/ RosterFind(r)
    \/ RosterList(r)
    \/ MineFind(r)
    \/ MinePopulate(r)

\* reads that overlap joins, leaves and the deletion of the event: each slot
\* carries one request
NextRead ==
    \/ \E r \in Slots :
          \/ StartRsvp(r, EventIds)
          \/ StartDelete(r, EventIds)
          \/ StartRead(r)
          \/ Step(r)
          \/ DeleteStep(r)
          \/ ReadStep(r)
    \/ Tick

SpecRead == InitRace /\ [][NextRead]_vars

\* ------------------------------------------------------ signup requests

\* one step of signup
SignupStep(r) ==
    \/ SignupFind(r)
    \/ SignupCreate(r)

\* signup requests, overlapping in any way
NextSignup ==
    \E r \in Slots : StartSignup(r) \/ SignupStep(r) \/ Retire(r)

SpecSignup == Init /\ [][NextSignup]_vars

\* ---------------------------------------------------------------- claims

Quiescent == \A s \in Slots : reqs[s].pc \in {"idle", "done"}

Confirmed(e) == {x \in rsvps : x.event = e /\ x.status = "confirmed"}

\* C1: for every event, in every state reached by interleaved createRsvp and
\* cancelRsvp requests (capacity fixed), 0 <= attendeeCount <= capacity.
C1_CountWithinCapacity ==
    \A e \in DOMAIN events :
        /\ 0 <= events[e].attendeeCount
        /\ events[e].attendeeCount <= events[e].capacity

\* a join was turned away by the atomic admit while the event is full
C1_Witness ==
    \E e \in DOMAIN events, r \in Slots :
        /\ events[e].attendeeCount = events[e].capacity
        /\ reqs[r].op = "join" /\ reqs[r].event = e
        /\ reqs[r].resp = "EventFull"

\* C2: for every event, in every reachable state, the number of RSVP records
\* with status 'confirmed' never exceeds the event's capacity.
C2_ConfirmedWithinCapacity ==
    \A e \in DOMAIN events : Cardinality(Confirmed(e)) <= events[e].capacity

\* C3: for every (event, user) pair, in every reachable state, at most one
\* RSVP record exists, hence at most one 'confirmed' record.
C3_OneRecordPerPair ==
    \A x \in rsvps, y \in rsvps :
        (x.event = y.event /\ x.user = y.user) => x = y

\* a join that had passed both lookups met the unique index on insert
C3_Witness ==
    \E r \in Slots :
        /\ reqs[r].pc = "j_abort" /\ reqs[r].err = "dup"
        /\ \E x \in rsvps : x.event = reqs[r].event /\ x.user = reqs[r].user

\* C5: whenever no join or leave is in flight, attendeeCount equals the number
\* of 'confirmed' RSVP records of the event.
C5_CountMatchesConfirmed ==
    Quiescent =>
        \A e \in DOMAIN events :
            events[e].attendeeCount = Cardinality(Confirmed(e))

\* -------------------------------------------- claims about a race

Started == {r \in Slots : reqs[r].op # "none"}

RespCount(S, response) == Cardinality({r \in S : reqs[r].resp = response})

ConfirmedIn(db, e, u) ==
    \E x \in db.rsvps : x.event = e /\ x.user = u /\ x.status = "confirmed"

\* the joins of a race: the requests issued are all joins of event e, by
\* distinct callers none of whom holds a confirmed RSVP, all answered, and the
\* event has not passed
JoinRace(e) ==
    /\ Started # {}
    /\ \A r \in Started :
          /\ reqs[r].pc = "done" /\ reqs[r].op = "join" /\ reqs[r].event = e
          /\ ~ConfirmedIn(base, e, reqs[r].user)
    /\ \A r \in Started, s \in Started : r # s => reqs[r].user # reqs[s].user
    /\ ~IsPast(events[e])

\* C4: with capacity C and attendeeCount = C - k, n > k concurrent joins by n
\* distinct callers end with exactly k Committed and n - k Rejected(EventFull),
\* none with an error, and attendeeCount = C.
C4_ExactlyKAdmitted ==
    \A e \in DOMAIN events :
        LET k == base.events[e].capacity - base.events[e].attendeeCount
            n == Cardinality(Started)
        IN (JoinRace(e) /\ n > k) =>
              /\ RespCount(Started, "Committed") = k
              /\ RespCount(Started, "EventFull") = n - k
              /\ events[e].attendeeCount = events[e].capacity

\* C6: two concurrent joins of the same (event, user) pair, which has no record
\* or a 'cancelled' one: exactly one is Committed, the other gets the
\* 'already RSVPed' rejection, and attendeeCount grows by exactly 1.
C6_OneOfTwoSamePairJoins ==
    \A r \in Slots, s \in Slots :
        ( /\ r # s
          /\ reqs[r].pc = "done" /\ reqs[s].pc = "done"
          /\ reqs[r].op = "join" /\ reqs[s].op = "join"
          /\ reqs[r].event = reqs[s].event /\ reqs[r].user = reqs[s].user
          /\ reqs[r].event \in DOMAIN events
          /\ ~ConfirmedIn(base, reqs[r].event, reqs[r].user)
          /\ base.events[reqs[r].event].attendeeCount + 2
                <= base.events[reqs[r].event].capacity
          /\ ~IsPast(events[reqs[r].event]) )
        => /\ {reqs[r].resp, reqs[s].resp} = {"Committed", "AlreadyRsvped"}
           /\ events[reqs[r].event].attendeeCount
                = base.events[reqs[r].event].attendeeCount + 1

\* ------------------------- claims about requests one after the other

CountIn(db, e) == db.events[e].attendeeCount

\* the event had not passed when the request was answered
FutureAt(h) == h.post.events[h.event].date >= h.at

SamePair(a, b) == a.event = b.event /\ a.user = b.user

Pairs2 == {i \in 1..Len(hist) : i + 1 <= Len(hist)}
Pairs3 == {i \in 1..Len(hist) : i + 2 <= Len(hist)}

\* C7: join twice in immediate succession for the same pair on a future event
\* with free capacity (the caller holding no confirmed RSVP): Committed, then
\* Rejected(AlreadyRsvped); attendeeCount is incremented exactly once and the
\* second call changes no state.
C7_JoinTwice ==
    /\ \A i \in 1..Len(hist) :
          LET a == hist[i] IN
          ( /\ a.op = "join" /\ FutureAt(a)
            /\ ~ConfirmedIn(a.pre, a.event, a.user)
            /\ CountIn(a.pre, a.event) < a.pre.events[a.event].capacity )
          => a.resp = "Committed"
    /\ \A i \in Pairs2 :
          LET a == hist[i]
              b == hist[i + 1]
          IN ( /\ a.op = "join" /\ b.op = "join" /\ SamePair(a, b)
               /\ a.resp = "Committed" /\ FutureAt(b) )
             => /\ b.resp = "AlreadyRsvped"
                /\ b.post = b.pre
                /\ CountIn(a.post, a.event) = CountIn(a.pre, a.event) + 1
                /\ CountIn(b.post, a.event) = CountIn(a.pre, a.event) + 1

C7_Witness ==
    \E i \in Pairs2 :
        /\ hist[i].op = "join" /\ hist[i].resp = "Committed"
        /\ hist[i + 1].op = "join" /\ SamePair(hist[i], hist[i + 1])
        /\ hist[i + 1].resp = "AlreadyRsvped"

\* C8: a Committed join followed by a Committed leave of the same pair
\* restores attendeeCount to its value before the join, and getRsvpStatus
\* then reports hasRsvped = false.
C8_JoinThenLeave ==
    /\ \A i \in Pairs2 :
          LET a == hist[i]
              b == hist[i + 1]
          IN ( /\ a.op = "join" /\ a.resp = "Committed"
               /\ b.op = "leave" /\ b.resp = "Committed" /\ SamePair(a, b) )
             => /\ CountIn(b.post, a.event) = CountIn(a.pre, a.event)
                /\ ~ConfirmedIn(b.post, a.event, a.user)
    /\ \A i \in Pairs3 :
          LET a == hist[i]
              b == hist[i + 1]
              c == hist[i + 2]
          IN ( /\ a.op = "join" /\ a.resp = "Committed"
               /\ b.op = "leave" /\ b.resp = "Committed" /\ SamePair(a, b)
               /\ c.op = "status" /\ SamePair(a, c) )
             => c.resp = "HasNotRsvped"

C8_Witness ==
    \E i \in Pairs3 :
        /\ hist[i].op = "join" /\ hist[i].resp = "Committed"
        /\ CountIn(hist[i].pre, hist[i].event) > 0
        /\ hist[i + 1].op = "leave" /\ hist[i + 1].resp = "Committed"
        /\ SamePair(hist[i], hist[i + 1])
        /\ hist[i + 2].op = "status" /\ SamePair(hist[i], hist[i + 2])
        /\ hist[i + 2].resp = "HasNotRsvped"

\* C9: on a full event a join by B is Rejected(EventFull); after a confirmed
\* caller A's leave is Committed, a following join by B (the event not having
\* passed meanwhile) is Committed and attendeeCount equals capacity again.
C9_ReleasedSlotIsReused ==
    /\ \A i \in 1..Len(hist) :
          LET a == hist[i] IN
          ( /\ a.op = "join" /\ FutureAt(a)
            /\ ~ConfirmedIn(a.pre, a.event, a.user)
            /\ CountIn(a.pre, a.event) = a.pre.events[a.event].capacity )
          => a.resp = "EventFull"
    /\ \A i \in Pairs3 :
          LET a == hist[i]
              b == hist[i + 1]
              c == hist[i + 2]
          IN ( /\ a.op = "join" /\ a.resp = "EventFull"
               /\ b.op = "leave" /\ b.resp = "Committed"
               /\ b.event = a.event /\ b.user # a.user
               /\ c.op = "join" /\ SamePair(a, c) /\ FutureAt(c) )
             => /\ CountIn(b.post, a.event) = a.pre.events[a.event].capacity - 1
                /\ c.resp = "Committed"
                /\ CountIn(c.post, a.event) = c.post.events[a.event].capacity

C9_Witness ==
    \E i \in Pairs3 :
        /\ hist[i].op = "join" /\ hist[i].resp = "EventFull"
        /\ hist[i + 1].op = "leave" /\ hist[i + 1].resp = "Committed"
        /\ hist[i + 1].user # hist[i].user
        /\ hist[i + 2].op = "join" /\ SamePair(hist[i], hist[i + 2])
        /\ hist[i + 2].resp = "Committed"
        /\ CountIn(hist[i + 2].post, hist[i].event)
              = hist[i + 2].post.events[hist[i].event].capacity

\* C10: a leave by a caller with no confirmed RSVP for the event (never
\* joined, or already cancelled) is rejected as NotRsvped, and leaves
\* attendeeCount and every RSVP record unchanged.
C10_LeaveWithoutRsvp ==
    \A i \in 1..Len(hist) :
        LET a == hist[i] IN
        (a.op = "leave" /\ ~ConfirmedIn(a.pre, a.event, a.user))
        => a.resp = "NotRsvped" /\ a.post = a.pre

C10_Witness ==
    \E i \in 1..Len(hist) :
        /\ hist[i].op = "leave" /\ hist[i].resp = "NotRsvped"
        /\ \E x \in hist[i].pre.rsvps :
              /\ x.event = hist[i].event /\ x.user = hist[i].user
              /\ x.status = "cancelled"
        /\ CountIn(hist[i].pre, hist[i].event) > 0

\* --------------------------------------- claims about failed requests

\* a step of the join in slot r
JoinStep(r) ==
    reqs[r].op = "join" /\ reqs'[r].op = "join" /\ reqs'[r].pc # reqs[r].pc

\* a step of the leave in slot r
LeaveStep(r) ==
    reqs[r].op = "leave" /\ reqs'[r].op = "leave" /\ reqs'[r].pc # reqs[r].pc

\* the step that answers the request in slot r
Answers(r) == reqs[r].pc # "done" /\ reqs'[r].pc = "done"

\* C11: join is all-or-nothing: no step of a join that is not answered with
\* success changes attendeeCount or any RSVP record, and when a join is
\* answered with a rejection or an error nothing of it is left to be written;
\* so a failed create or reactivate after the increment leaves the count as
\* it was.
C11_JoinAllOrNothing ==
    [][\A r \in Slots :
          (JoinStep(r) /\ reqs'[r].resp # "Committed")
          => /\ events' = events
             /\ rsvps' = rsvps
             /\ Answers(r) => (reqs'[r].evWrite = <<>> /\ reqs'[r].recWrite = <<>>)]_vars

\* a join whose insert met the unique index after its increment was answered
\* 'already RSVPed', and the count is the number of confirmed records
C11_Witness ==
    \E r \in Slots :
        /\ reqs[r].op = "join" /\ reqs[r].pc = "done"
        /\ reqs[r].resp = "AlreadyRsvped" /\ reqs[r].txn = "aborted"
        /\ reqs[r].event \in DOMAIN events
        /\ events[reqs[r].event].attendeeCount
              = Cardinality(Confirmed(reqs[r].event))
        /\ events[reqs[r].event].attendeeCount < events[reqs[r].event].capacity

\* ------------------------------------ claims about updateEvent, deleteEvent

\* the step in which the updateEvent in slot r writes
UpdateWrites(r) ==
    reqs[r].op = "update" /\ reqs[r].pc = "u_write" /\ reqs'[r].pc = "done"

\* C12: a capacity change through updateEvent never produces a state with
\* capacity < attendeeCount, also when a join commits between updateEvent's
\* read of attendeeCount and its write of capacity.
C12_UpdateKeepsCapacityAboveCount ==
    [][\A r \in Slots :
          UpdateWrites(r) =>
              \A e \in DOMAIN events' :
                  events'[e].capacity >= events'[e].attendeeCount]_vars

\* C13: after deleteEvent has succeeded for an event, no RSVP record refers to
\* that event, in every state afterwards, also when joins of that event run
\* beside the deletion.
C13_NoRsvpOfDeletedEvent ==
    \A r \in Slots :
        (reqs[r].op = "delete" /\ reqs[r].resp = "Deleted")
        => \A x \in rsvps : x.event # reqs[r].event

\* the step in which the request in slot r is answered with response resp
AnsweredWith(r, op, resp) ==
    reqs[r].op = op /\ Answers(r) /\ reqs'[r].resp = resp

\* the change of attendeeCount of event e in a step
CountChange(e) == events'[e].attendeeCount - events[e].attendeeCount

\* C14: attendeeCount is created as 0 and afterwards changed only by join and
\* leave: createEvent stores 0 whatever the body says, updateEvent leaves it
\* as it is, a Committed join changes it by +1, a Committed leave by -1, and a
\* rejected join or leave by 0.
C14_CountChangedOnlyByJoinAndLeave ==
    [][/\ \A e \in DOMAIN events' \ DOMAIN events : events'[e].attendeeCount = 0
       /\ \A e \in DOMAIN events' \cap DOMAIN events :
             \/ CountChange(e) = 0
             \/ \E r \in Slots :
                   /\ reqs[r].event = e
                   /\ \/ AnsweredWith(r, "join", "Committed") /\ CountChange(e) = 1
                      \/ AnsweredWith(r, "leave", "Committed") /\ CountChange(e) = -1
       /\ \A r \in Slots :
             (Answers(r) /\ reqs[r].event \in DOMAIN events)
             => /\ reqs[r].event \in DOMAIN events'
                /\ CountChange(reqs[r].event) =
                      IF AnsweredWith(r, "join", "Committed") THEN 1
                      ELSE IF AnsweredWith(r, "leave", "Committed") THEN -1
                      ELSE 0]_vars

\* an event was created, and on one event an update of the capacity, a
\* Committed join or leave have been answered while its count is not 0
C14_Witness ==
    \E r \in Slots, s \in Slots :
        /\ DOMAIN events = AllEventIds
        /\ reqs[r].op = "update" /\ reqs[r].resp = "Updated" /\ reqs[r].arg # 0
        /\ reqs[s].op \in {"join", "leave"} /\ reqs[s].resp = "Committed"
        /\ reqs[s].event = reqs[r].event
        /\ events[reqs[r].event].capacity = reqs[r].arg
        /\ events[reqs[r].event].attendeeCount > 0

\* ------------------------------------- claims about the checks of a join

\* C15: a join of an event that does not exist is rejected as EventNotFound,
\* a join of an event whose date is in the past as EventInPast (and only
\* then); both are answered by the handler's first lookup, before any
\* transaction, and change neither attendeeCount nor any RSVP record.
C15_MissingOrPastEventRejected ==
    [][\A r \in Slots :
          /\ (JoinStep(r) /\ reqs[r].pc = "j_findEvent")
             => /\ reqs[r].event \notin DOMAIN events
                    => reqs'[r].resp = "EventNotFound"
                /\ reqs[r].event \in DOMAIN events
                    => (reqs'[r].resp = "EventInPast"
                          <=> events[reqs[r].event].date < now)
          /\ (JoinStep(r) /\ reqs'[r].resp \in {"EventNotFound", "EventInPast"})
             => /\ reqs[r].pc = "j_findEvent"
                /\ reqs'[r].txn = "none"
                /\ events' = events /\ rsvps' = rsvps]_vars

\* one join was turned away from an event that has passed and holds
\* attendees, another from an id no event has
C15_Witness ==
    \E r \in Slots, s \in Slots :
        /\ reqs[r].op = "join" /\ reqs[r].resp = "EventInPast"
        /\ reqs[r].event \in DOMAIN events
        /\ events[reqs[r].event].attendeeCount > 0
        /\ reqs[s].op = "join" /\ reqs[s].resp = "EventNotFound"
        /\ reqs[s].event \notin DOMAIN events

\* C16: when the atomic admit of a join finds no event because the event does
\* not exist at that moment (deleted after the join's lookup), the join is
\* rejected as not found, not as EventFull, and nothing is changed.
C16_AdmitOnMissingEvent ==
    [][\A r \in Slots :
          ( /\ JoinStep(r) /\ reqs[r].pc = "j_admit"
            /\ reqs[r].event \notin DOMAIN events )
          => /\ JoinAbortResponse(reqs'[r].err) # "EventFull"
             /\ events' = events /\ rsvps' = rsvps]_vars

\* the record of the pair (e, u) in a store, as a set
RecordsIn(db, e, u) == {x \in db.rsvps : x.event = e /\ x.user = u}

\* C17: a join of an event at capacity (by a caller without a confirmed RSVP,
\* the event not having passed) is rejected as EventFull, and the rejection is
\* terminal: it creates no RSVP record, changes no record's status (a
\* cancelled record stays cancelled) and leaves attendeeCount unchanged.
C17_FullIsTerminal ==
    \A i \in 1..Len(hist) :
        LET a == hist[i] IN
        /\ ( /\ a.op = "join" /\ FutureAt(a)
             /\ ~ConfirmedIn(a.pre, a.event, a.user)
             /\ CountIn(a.pre, a.event) >= a.pre.events[a.event].capacity )
           => a.resp = "EventFull"
        /\ (a.op = "join" /\ a.resp = "EventFull")
           => /\ a.post.rsvps = a.pre.rsvps
              /\ RecordsIn(a.post, a.event, a.user) = RecordsIn(a.pre, a.event, a.user)
              /\ ~ConfirmedIn(a.post, a.event, a.user)
              /\ a.post.events = a.pre.events
              /\ CountIn(a.post, a.event) = a.post.events[a.event].capacity

\* a caller holding a cancelled record was turned away from a full event
C17_Witness ==
    \E i \in 1..Len(hist) :
        /\ hist[i].op = "join" /\ hist[i].resp = "EventFull"
        /\ \E x \in hist[i].post.rsvps :
              /\ x.event = hist[i].event /\ x.user = hist[i].user
              /\ x.status = "cancelled"

\* the status of the stored document id, "none" when it is not stored
StatusOf(recs, id) ==
    IF \E x \in recs : x.id = id
    THEN (CHOOSE x \in recs : x.id = id).status
    ELSE "none"

\* the leave in slot r is answered 'Error updating event': its decrement
\* matched no event with attendeeCount > 0, while the caller's record was
\* 'confirmed' when the leave's transaction deactivated it
FloorAnswer(r) ==
    /\ AnsweredWith(r, "leave", "InconsistentState")
    /\ reqs[r].snap # <<>>
    /\ StatusOf(reqs[r].snap[1].rsvps, reqs[r].doc) = "confirmed"

OtherRecords(recs, e, u) == {x \in recs : ~(x.event = e /\ x.user = u)}

\* C19: a step of a join or leave of the pair (e, u) leaves every event other
\* than e as it is (attendeeCount, capacity), leaves the capacity of e as it
\* is, and leaves every RSVP record of another pair as it is: the only record
\* it can create or modify is u's record for e.
C19_NoCrossPairInterference ==
    [][\A r \in Slots :
          (JoinStep(r) \/ LeaveStep(r)) =>
              LET e == reqs[r].event
                  u == reqs[r].user
              IN /\ DOMAIN events' = DOMAIN events
                 /\ \A o \in DOMAIN events \ {e} : events'[o] = events[o]
                 /\ e \in DOMAIN events
                      => events'[e] = [events[e] EXCEPT
                                          !.attendeeCount = events'[e].attendeeCount]
                 /\ OtherRecords(rsvps', e, u) = OtherRecords(rsvps, e, u)]_vars

\* two events with attendees, and a join or leave on one of them has been
\* Committed while another caller holds a confirmed record for it
C19_Witness ==
    \E r \in Slots, o \in DOMAIN events :
        /\ reqs[r].op \in {"join", "leave"} /\ reqs[r].resp = "Committed"
        /\ reqs[r].event \in DOMAIN events /\ o # reqs[r].event
        /\ events[o].attendeeCount > 0
        /\ \E x \in rsvps : /\ x.event = reqs[r].event /\ x.user # reqs[r].user
                            /\ x.status = "confirmed"

\* ------------------------------------ claims about interrupted requests

IdsOf(recs, e, u) == {x.id : x \in {y \in recs : y.event = e /\ y.user = u}}

\* the step in which the deleteEvent in slot r runs deleteMany
DeletesRecords(r) ==
    reqs[r].op = "delete" /\ reqs[r].pc = "d_rsvps" /\ reqs'[r].pc = "d_event"

\* C21: an RSVP record is created by the Committed join of a pair that has no
\* record, as 'confirmed'; a Committed leave keeps the pair's record and
\* leaves it 'cancelled'; a Committed join of a pair that has a record keeps
\* that record (same id, no second record) and leaves it 'confirmed'; a
\* record changes its status in no other step, never changes its pair, and
\* leaves the collection only in the deleteMany of a deleteEvent of its event.
C21_RecordLifecycle ==
    [][/\ \A x \in rsvps' :
             x.id \notin {y.id : y \in rsvps} =>
                 /\ x.status = "confirmed"
                 /\ IdsOf(rsvps, x.event, x.user) = {}
                 /\ \E r \in Slots : /\ AnsweredWith(r, "join", "Committed")
                                     /\ reqs[r].event = x.event
                                     /\ reqs[r].user = x.user
       /\ \A x \in rsvps :
             IF x.id \notin {y.id : y \in rsvps'}
             THEN \E r \in Slots : DeletesRecords(r) /\ reqs[r].event = x.event
             ELSE LET y == CHOOSE z \in rsvps' : z.id = x.id IN
                  /\ y.event = x.event /\ y.user = x.user
                  /\ y.status # x.status =>
                        \E r \in Slots :
                           /\ reqs[r].event = x.event /\ reqs[r].user = x.user
                           /\ AnsweredWith(r, IF y.status = "cancelled"
                                              THEN "leave" ELSE "join", "Committed")
       /\ \A r \in Slots :
             LET e == reqs[r].event
                 u == reqs[r].user
             IN /\ AnsweredWith(r, "leave", "Committed") =>
                      /\ IdsOf(rsvps', e, u) = IdsOf(rsvps, e, u)
                      /\ \A x \in rsvps' :
                            (x.event = e /\ x.user = u) => x.status = "cancelled"
                /\ AnsweredWith(r, "join", "Committed") =>
                      /\ IdsOf(rsvps, e, u) # {} => IdsOf(rsvps', e, u) = IdsOf(rsvps, e, u)
                      /\ Cardinality(IdsOf(rsvps', e, u)) = 1
                      /\ \A x \in rsvps' :
                            (x.event = e /\ x.user = u) => x.status = "confirmed"]_vars

\* a pair's confirmed record was deactivated by a Committed leave and made
\* 'confirmed' again by a Committed join: it is the pair's only record and
\* has the id it had before
C21_Witness ==
    \E r \in Slots, s \in Slots :
        /\ reqs[r].op = "leave" /\ reqs[r].resp = "Committed"
        /\ reqs[s].op = "join" /\ reqs[s].resp = "Committed"
        /\ reqs[s].event = reqs[r].event /\ reqs[s].user = reqs[r].user
        /\ IdsOf(rsvps, reqs[r].event, reqs[r].user)
              = IdsOf(base.rsvps, reqs[r].event, reqs[r].user)
        /\ \E x \in base.rsvps : /\ x.event = reqs[r].event /\ x.user = reqs[r].user
                                 /\ x.status = "confirmed"
        /\ ConfirmedIn(Db, reqs[r].event, reqs[r].user)

\* ------------------------------------------ claims about the event's owner

\* a step of the updateEvent or deleteEvent in slot r
OwnerStep(r) ==
    /\ reqs[r].op \in {"update", "delete"}
    /\ reqs'[r].op = reqs[r].op
    /\ reqs'[r].pc # reqs[r].pc

\* C24: an updateEvent or deleteEvent of an existing event by a user who is
\* not its creator is answered 'Not authorized' in its first step and changes
\* neither the events (capacity, attendeeCount, existence) nor the RSVP
\* records; every step of these handlers that changes the store belongs to a
\* request of the event's creator.
C24_OnlyCreatorUpdatesOrDeletes ==
    [][\A r \in Slots :
          OwnerStep(r) =>
              LET e == reqs[r].event IN
              /\ (e \in DOMAIN events /\ events[e].creator # reqs[r].user)
                    => /\ Answers(r) /\ reqs'[r].resp = "NotOwner"
                       /\ events' = events /\ rsvps' = rsvps
              /\ (events' # events \/ rsvps' # rsvps)
                    => /\ e \in DOMAIN base.events
                       /\ base.events[e].creator = reqs[r].user]_vars

\* an update of the capacity and a deletion, both sent by a user who is not
\* the creator, were answered 'Not authorized' on an event that has attendees
C24_Witness ==
    \E r \in Slots, s \in Slots :
        /\ reqs[r].op = "update" /\ reqs[r].resp = "NotOwner"
        /\ reqs[s].op = "delete" /\ reqs[s].resp = "NotOwner"
        /\ reqs[s].event = reqs[r].event /\ reqs[r].event \in DOMAIN events
        /\ reqs[r].arg # 0 /\ reqs[r].arg # events[reqs[r].event].capacity
        /\ events[reqs[r].event].attendeeCount > 0
        /\ Db = base

\* ------------------------------------------ claims about concurrent leaves

\* C25: two concurrent leaves of the same (event, user) pair, which holds one
\* confirmed record: exactly one is Committed, the other is rejected ('no
\* active RSVP' or an error), and attendeeCount has decreased by exactly 1,
\* also when another caller's record keeps the count above 0.
C25_OneOfTwoSamePairLeaves ==
    \A r \in Slots, s \in Slots :
        ( /\ r # s
          /\ reqs[r].pc = "done" /\ reqs[s].pc = "done"
          /\ reqs[r].op = "leave" /\ reqs[s].op = "leave"
          /\ reqs[r].event = reqs[s].event /\ reqs[r].user = reqs[s].user
          /\ reqs[r].event \in DOMAIN events
          /\ ConfirmedIn(base, reqs[r].event, reqs[r].user) )
        => /\ "Committed" \in {reqs[r].resp, reqs[s].resp}
           /\ {reqs[r].resp, reqs[s].resp} \cap
                 {"NotRsvped", "Error500", "InconsistentState"} # {}
           /\ events[reqs[r].event].attendeeCount
                = base.events[reqs[r].event].attendeeCount - 1

\* C26: leave is all-or-nothing: the step that answers a leave with success
\* leaves the caller's record 'cancelled' and lowers attendeeCount by exactly
\* 1; every other step of a leave, a rejection or an error included, changes
\* neither attendeeCount nor any RSVP record, and an answered leave has
\* nothing left to write.
C26_LeaveAllOrNothing ==
    [][\A r \in Slots :
          LeaveStep(r) =>
              LET e == reqs[r].event IN
              IF AnsweredWith(r, "leave", "Committed")
              THEN /\ e \in DOMAIN events /\ e \in DOMAIN events'
                   /\ CountChange(e) = -1
                   /\ IdsOf(rsvps', e, reqs[r].user) = {reqs[r].doc}
                   /\ StatusOf(rsvps', reqs[r].doc) = "cancelled"
                   /\ reqs'[r].txn = "committed"
              ELSE /\ events' = events
                   /\ rsvps' = rsvps
                   /\ Answers(r) => /\ reqs'[r].evWrite = <<>>
                                    /\ reqs'[r].recWrite = <<>>
                                    /\ reqs'[r].txn # "active"]_vars

\* one leave was answered with success and another with an error after its
\* deactivation was buffered; the count is the number of confirmed records
C26_Witness ==
    \E r \in Slots, s \in Slots :
        /\ reqs[r].op = "leave" /\ reqs[r].resp = "Committed"
        /\ reqs[s].op = "leave" /\ reqs[s].txn = "aborted"
        /\ reqs[s].resp \in {"Error500", "InconsistentState"}
        /\ reqs[s].event = reqs[r].event
        /\ events[reqs[r].event].attendeeCount
              = Cardinality(Confirmed(reqs[r].event))

\* --------------------------------- claims about transactions and sessions

\* the responses createRsvp and cancelRsvp send before startTransaction
EarlyResponses ==
    {"InvalidId", "EventNotFound", "EventInPast", "AlreadyRsvped", "NotRsvped"}

\* C28: on every path of createRsvp and cancelRsvp the transaction, once
\* started, is committed or aborted by the time the response is sent, never
\* left open and never both: an answered request has a committed transaction
\* exactly when its response is the success, an aborted one or (on the early
\* returns) none otherwise, and its session is ended; a running handler's
\* session is open; a closed transaction stays as it was closed.
C28_TransactionClosedOnEveryPath ==
    /\ [](\A r \in Slots :
            reqs[r].op \in Ops =>
                IF reqs[r].pc = "done"
                THEN /\ reqs[r].txn \in {"none", "committed", "aborted"}
                     /\ reqs[r].resp = "Committed" <=> reqs[r].txn = "committed"
                     /\ reqs[r].txn = "none" => reqs[r].resp \in EarlyResponses
                     /\ reqs[r].session = "ended"
                ELSE /\ reqs[r].txn \in {"none", "active"}
                     /\ reqs[r].session = "open")
    /\ [][\A r \in Slots :
            (reqs[r].op \in Ops /\ reqs'[r].op = reqs[r].op) =>
                /\ reqs[r].txn \in {"committed", "aborted"}
                      => reqs'[r].txn = reqs[r].txn
                /\ (reqs[r].txn = "active" /\ reqs'[r].txn # "active")
                      => Answers(r)
                /\ reqs[r].session = "ended" => reqs'[r].session = "ended"]_vars

\* a join was answered 'full capacity' after abortTransaction and a leave
\* with success after commitTransaction; both sessions are ended
C28_Witness ==
    \E r \in Slots, s \in Slots :
        /\ reqs[r].op = "join" /\ reqs[r].resp = "EventFull"
        /\ reqs[r].txn = "aborted" /\ reqs[r].session = "ended"
        /\ reqs[s].op = "leave" /\ reqs[s].resp = "Committed"
        /\ reqs[s].txn = "committed" /\ reqs[s].session = "ended"

\* ---------------------------------------------- claims about termination

\* C29: every createRsvp and cancelRsvp request, whatever the other requests
\* do, is answered in the end, and answered once: a started request reaches
\* its response, and the response of a request is set in the one step that
\* answers it and never changes afterwards.
C29_EveryRequestIsAnswered ==
    /\ \A r \in Slots :
          (reqs[r].pc # "idle") ~> (reqs[r].pc = "done" /\ reqs[r].resp # "")
    /\ [][\A r \in Slots :
            reqs'[r].resp # reqs[r].resp => (Answers(r) /\ reqs[r].resp = "")]_vars

\* two requests on one event overlapped, one lost a write conflict, and both
\* have been answered
C29_Witness ==
    \E r \in Slots, s \in Slots :
        /\ r # s
        /\ reqs[r].pc = "done" /\ reqs[s].pc = "done"
        /\ reqs[r].event = reqs[s].event
        /\ reqs[r].resp = "Committed" /\ reqs[s].resp = "Error500"

\* --------------------------------------------------- claims about signup

\* C30: no two accounts share the same lowercased email, also when signups
\* for one email overlap; and a signup answered while its lowercased email is
\* registered creates no account and is answered 'User with this email
\* already exists' (400).
C30_UniqueEmailAndRejection ==
    /\ [](\A a \in accounts, b \in accounts :
            ToLowerCase(a.email) = ToLowerCase(b.email) => a = b)
    /\ [][\A r \in Slots :
            ( /\ reqs[r].op = "signup" /\ Answers(r)
              /\ FindUser(accounts, ToLowerCase(reqs[r].email)) # {} )
            => /\ accounts' = accounts
               /\ reqs'[r].resp = "EmailTaken"]_vars

\* ---------------------------------------------- claims about the reads

\* a step of the read handler op in slot r
ReadStepOf(r, op) ==
    reqs[r].op = op /\ reqs'[r].op = op /\ reqs'[r].pc # reqs[r].pc

\* C22: getEventAttendees gives the roster to the event's creator only: a
\* request of another user for an existing event is answered 'Not
\* authorized' and carries no attendee; a roster is answered only to the
\* creator, and it is exactly the set of users who have a 'confirmed' record
\* for the event when the records are read (cancelled records excluded).
C22_RosterOnlyForCreator ==
    [][\A r \in Slots :
          ReadStepOf(r, "roster") =>
              LET e == reqs[r].event
                  u == reqs[r].user
              IN /\ (reqs[r].pc = "r_find" /\ e \in DOMAIN events
                                           /\ events[e].creator # u)
                       => /\ Answers(r) /\ reqs'[r].resp = "NotOwner"
                 /\ reqs'[r].resp # "Roster" => reqs'[r].out = {}
                 /\ reqs'[r].resp = "Roster"
                       => /\ e \in DOMAIN base.events
                          /\ base.events[e].creator = u
                          /\ reqs'[r].out = {x.user : x \in Confirmed(e)}
                 /\ events' = events /\ rsvps' = rsvps]_vars

\* the creator was given a roster that names an attendee and leaves out a
\* user whose record is 'cancelled', and another user was answered 'Not
\* authorized'
C22_Witness ==
    \E r \in Slots, s \in Slots :
        /\ reqs[r].op = "roster" /\ reqs[r].resp = "Roster"
        /\ reqs[r].out # {}
        /\ \E x \in rsvps : /\ x.event = reqs[r].event /\ x.status = "cancelled"
                            /\ x.user \notin reqs[r].out
        /\ reqs[s].op = "roster" /\ reqs[s].resp = "NotOwner"
        /\ reqs[s].event = reqs[r].event
        /\ ConfirmedIn(Db, reqs[s].event, reqs[s].user)

\* C23: getMyRsvps answers caller u with exactly u's 'confirmed' records
\* whose event is stored and has a date not in the past: the find returns
\* exactly the confirmed records of u, and of these the answer keeps exactly
\* those whose event exists and is not past when the events are loaded; no
\* cancelled record, record of another user, of a past event or of a deleted
\* event is returned.
C23_MyRsvpsActiveAndUpcoming ==
    [][\A r \in Slots :
          ReadStepOf(r, "mine") =>
              LET u == reqs[r].user IN
              /\ reqs[r].pc = "m_find"
                    => reqs'[r].out =
                          {x \in rsvps : x.user = u /\ x.status = "confirmed"}
              /\ Answers(r)
                    => /\ reqs'[r].resp = "MyRsvps"
                       /\ reqs'[r].out =
                             {x \in reqs[r].out : /\ x.event \in DOMAIN events
                                                  /\ ~IsPast(events[x.event])}
                       /\ \A x \in reqs'[r].out :
                             /\ x.user = u /\ x.status = "confirmed"
                             /\ x.event \in DOMAIN events
                             /\ events[x.event].date >= now
              /\ events' = events /\ rsvps' = rsvps]_vars

\* a caller was given their confirmed record while its event was upcoming,
\* and nothing once the event was past, the record being stored as before;
\* the other user's cancelled record was in neither answer
C23_Witness ==
    \E r \in Slots, s \in Slots :
        /\ reqs[r].op = "mine" /\ reqs[r].resp = "MyRsvps"
        /\ reqs[s].op = "mine" /\ reqs[s].resp = "MyRsvps"
        /\ reqs[r].user = reqs[s].user
        /\ reqs[r].out # {} /\ reqs[s].out = {}
        /\ reqs[r].out \subseteq rsvps
        /\ \A x \in reqs[r].out : x.event \in DOMAIN events /\ IsPast(events[x.event])
        /\ \E x \in rsvps : x.user # reqs[r].user /\ x.status = "cancelled"

\* C27: the hasRsvped flag of getRsvpStatus, getEvent and getEvents, for
\* caller u and event e, is true exactly when a 'confirmed' record of (e, u)
\* is stored when the handler reads the records: false without a record or
\* with a 'cancelled' one, true again after a re-join.
C27_HasRsvpedIsConfirmedRecord ==
    [][\A r \in Slots :
          LET e == reqs[r].event
              u == reqs[r].user
          IN /\ (ReadStepOf(r, "status") /\ IsValidId(e))
                   => reqs'[r].resp = IF ConfirmedIn(Db, e, u)
                                      THEN "HasRsvped" ELSE "HasNotRsvped"
             /\ (ReadStepOf(r, "event") /\ reqs[r].pc = "g_rsvp")
                   => /\ reqs'[r].resp = "Event"
                      /\ reqs'[r].out = {<<e, ConfirmedIn(Db, e, u)>>}
             /\ (ReadStepOf(r, "events") /\ reqs[r].pc = "g_flags")
                   => /\ reqs'[r].resp = "Events"
                      /\ reqs'[r].out =
                            {<<x, ConfirmedIn(Db, x, u)>> :
                                x \in {p[1] : p \in reqs[r].out}}]_vars

\* a pair whose record was 'cancelled' re-joined, and getEvent then reported
\* hasRsvped true for it
C27_Witness ==
    \E r \in Slots, s \in Slots :
        /\ reqs[r].op = "join" /\ reqs[r].resp = "Committed"
        /\ \E x \in base.rsvps : /\ x.event = reqs[r].event /\ x.user = reqs[r].user
                                 /\ x.status = "cancelled"
        /\ reqs[s].op = "event" /\ reqs[s].resp = "Event"
        /\ reqs[s].event = reqs[r].event /\ reqs[s].user = reqs[r].user
        /\ reqs[s].out = {<<reqs[s].event, TRUE>>}

====
